---- MODULE Spec2Model ----
(***************************************************************************)
(* Navigation tree synthesis of astrowind-i18n                              *)
(* (src/src/utils/auto-navigation.ts).                                      *)
(*                                                                          *)
(* Strings that the code only compares or copies are TLA+ strings.  A      *)
(* slash-separated path ("docs/intro") is the sequence of its segments     *)
(* (<<"docs", "intro">>), which is what path.split('/').filter(Boolean)    *)
(* yields; a URL is the sequence of its path segments.  An optional        *)
(* property is a set with at most one element: {} when the property is     *)
(* undefined, {v} when it holds v.                                          *)
(***************************************************************************)
EXTENDS Integers, Sequences, FiniteSets, TLC

VARIABLES pageModules, NAVIGATION, headerData, footerData, scanned, navTree,
          loaded, ready, readyPromise, requests,
          config, I18N,
          _pages, loads, fetches

\* the state of the configuration builder (src/unnamed/part_009)
builderVars == <<config, I18N>>

\* the state of src/utils/pages.ts: the module variable _pages, the number
\* of load() calls made so far, and the fetchPages calls
pagesVars == <<_pages, loads, fetches>>

\* the state of src/middleware.js
middlewareVars == <<loaded, ready, readyPromise, requests>>

vars == <<pageModules, NAVIGATION, headerData, footerData, scanned, navTree,
          loaded, ready, readyPromise, requests, config, I18N,
          _pages, loads, fetches>>

\* ------------------------------------------------------------------------
\* Optional values and small sequence helpers
\* ------------------------------------------------------------------------
None == {}

Some(x) == {x}

Val(o) == CHOOSE x \in o : TRUE

Range(s) == {s[i] : i \in 1..Len(s)}

RECURSIVE Concat(_)
Concat(ss) == IF ss = <<>> THEN <<>> ELSE Head(ss) \o Concat(Tail(ss))

\* ------------------------------------------------------------------------
\* Bounds
\* ------------------------------------------------------------------------
MaxPages == 3

MaxRequests == 3

MaxFetches == 3

Requests == 1..MaxRequests

Locales == {"en", "es"}

\* ------------------------------------------------------------------------
\* String functions
\* ------------------------------------------------------------------------
\* The titles that occur, in the order String.prototype.localeCompare puts
\* them; localeCompare(a, b) is negative, zero or positive as TitleRank(a) is
\* below, equal to or above TitleRank(b).
Collation ==
  <<"About", "About Us", "Api", "Auth", "Bios", "Blog", "Core", "Docs",
    "Documentation", "Guide", "Intro", "Introduction", "Labs", "Leads",
    "Mobile App", "Overview", "Reference", "Services", "Team", "Tutorials",
    "[...blog]", "[category]">>

TitleRank(t) == CHOOSE i \in 1..Len(Collation) : Collation[i] = t

localeCompare(a, b) == TitleRank(a) - TitleRank(b)

\* formatTitle: last segment, cleanSlug, split on [-_], capitalise each word,
\* join with a space.  Tabulated for the segments that occur.
formatTitle(segment) ==
  CASE segment = "about"      -> "About"
    [] segment = "api"        -> "Api"
    [] segment = "auth"       -> "Auth"
    [] segment = "bios"       -> "Bios"
    [] segment = "blog"       -> "Blog"
    [] segment = "core"       -> "Core"
    [] segment = "docs"       -> "Docs"
    [] segment = "guide"      -> "Guide"
    [] segment = "intro"      -> "Intro"
    [] segment = "labs"       -> "Labs"
    [] segment = "leads"      -> "Leads"
    [] segment = "mobile-app" -> "Mobile App"
    [] segment = "overview"   -> "Overview"
    [] segment = "services"   -> "Services"
    [] segment = "team"       -> "Team"
    [] segment = "tutorials"  -> "Tutorials"
    [] segment = "[...blog]"  -> "[...blog]"
    [] segment = "[category]" -> "[category]"

\* getPermalink(slug, type, locale): the locale prefix, the base of the type,
\* the slug.
getPermalink(slug, type, locale) ==
  CASE type = "category" -> <<locale, "category">> \o slug
    [] type = "tag"      -> <<locale, "tag">> \o slug
    [] OTHER             -> <<locale>> \o slug

\* normalizeShowIn that takes an array only
normalizeShowInArrayOnly(showIn) ==
  IF showIn = None THEN <<>>
  ELSE IF ~Val(showIn).isArray THEN <<>>
  ELSE Val(showIn).vals

normalizeShowIn(showIn) ==
  IF showIn = None THEN <<>>
  ELSE IF ~Val(showIn).isArray /\ Val(showIn).vals = <<"">> THEN <<>>
  ELSE Val(showIn).vals

\* isDynamicSegment that takes every bracketed segment
isDynamicSegmentBracketed(segment) ==
  segment \in {"[...blog]", "[...page]", "[category]", "[tag]"}

\* segment.startsWith('[...'), for the segments that occur
isDynamicSegment(segment) == segment \in {"[...blog]", "[...page]"}

extractRoutePath(filePath) ==
  IF filePath.segs = <<"index">> THEN <<>> ELSE filePath.segs

\* ------------------------------------------------------------------------
\* scanPages
\* ------------------------------------------------------------------------
\* scanDecision without the visibility rule
scanDecisionNoVisibility(module, visibility, skipDynamic) ==
  LET routePath   == extractRoutePath(module.file)
      navigation  == module.navigation
      type        == IF navigation.type = None THEN "page" ELSE Val(navigation.type)
      slug        == IF navigation.slug = None THEN routePath ELSE Val(navigation.slug)
  IN  IF routePath = <<>> THEN "skip"
      ELSE IF skipDynamic /\ \E i \in 1..Len(routePath) : isDynamicSegment(routePath[i])
        THEN "skip"
      ELSE IF navigation.exclude = Some(TRUE) THEN "skip"
      ELSE IF navigation.title = None \/ navigation.title = Some("") THEN "warn-title"
      ELSE IF type \in {"category", "tag"} /\ slug = <<>> THEN "warn-slug"
      ELSE "push"

\* scanDecision without the exclude rule
scanDecisionNoExclude(module, visibility, skipDynamic) ==
  LET routePath   == extractRoutePath(module.file)
      navigation  == module.navigation
      showInArray == normalizeShowIn(navigation.showIn)
      shouldShow  == showInArray = <<>> \/ visibility \in Range(showInArray)
      type        == IF navigation.type = None THEN "page" ELSE Val(navigation.type)
      slug        == IF navigation.slug = None THEN routePath ELSE Val(navigation.slug)
  IN  IF routePath = <<>> THEN "skip"
      ELSE IF skipDynamic /\ \E i \in 1..Len(routePath) : isDynamicSegment(routePath[i])
        THEN "skip"
      ELSE IF navigation.title = None \/ navigation.title = Some("") THEN "warn-title"
      ELSE IF visibility # "" /\ ~shouldShow THEN "skip"
      ELSE IF type \in {"category", "tag"} /\ slug = <<>> THEN "warn-slug"
      ELSE "push"

\* What the loop body of scanPages does with one module:
\* "skip" (continue without a word), "warn-title", "warn-slug" (console.warn,
\* then continue) or "push".
scanDecision(module, visibility, skipDynamic) ==
  LET routePath   == extractRoutePath(module.file)
      navigation  == module.navigation
      showInArray == normalizeShowIn(navigation.showIn)
      shouldShow  == showInArray = <<>> \/ visibility \in Range(showInArray)
      type        == IF navigation.type = None THEN "page" ELSE Val(navigation.type)
      slug        == IF navigation.slug = None THEN routePath ELSE Val(navigation.slug)
  IN  IF routePath = <<>> THEN "skip"
      ELSE IF skipDynamic /\ \E i \in 1..Len(routePath) : isDynamicSegment(routePath[i])
        THEN "skip"
      ELSE IF navigation.exclude = Some(TRUE) THEN "skip"
      ELSE IF navigation.title = None \/ navigation.title = Some("") THEN "warn-title"
      ELSE IF visibility # "" /\ ~shouldShow THEN "skip"
      ELSE IF type \in {"category", "tag"} /\ slug = <<>> THEN "warn-slug"
      ELSE "push"

\* the AutoNavPage pushed for a module
scanPage(module, locale) ==
  LET routePath  == extractRoutePath(module.file)
      navigation == module.navigation
      type       == IF navigation.type = None THEN "page" ELSE Val(navigation.type)
      slug       == IF navigation.slug = None THEN routePath ELSE Val(navigation.slug)
  IN  [path       |-> routePath,
       title      |-> Val(navigation.title),
       href       |-> getPermalink(slug, type, locale),
       navigation |-> navigation]

RECURSIVE scanPagesOf(_, _, _, _)
scanPagesOf(modules, locale, visibility, skipDynamic) ==
  IF modules = <<>> THEN <<>>
  ELSE (IF scanDecision(Head(modules), visibility, skipDynamic) = "push"
          THEN <<scanPage(Head(modules), locale)>> ELSE <<>>)
       \o scanPagesOf(Tail(modules), locale, visibility, skipDynamic)

\* scanPages with a pages array that outlives the call: the pages of the
\* header call before are still in it
scanPagesShared(locale, visibility, skipDynamic) ==
  (IF visibility = "header" /\ headerData # None
     THEN scanPagesOf(pageModules, Val(headerData).locale, visibility, skipDynamic)
     ELSE <<>>)
  \o scanPagesOf(pageModules, locale, visibility, skipDynamic)

scanPages(locale, visibility, skipDynamic) ==
  scanPagesOf(pageModules, locale, visibility, skipDynamic)

\* the console.warn calls of one scanPages run, in order
RECURSIVE scanWarningsOf(_, _, _)
scanWarningsOf(modules, visibility, skipDynamic) ==
  IF modules = <<>> THEN <<>>
  ELSE LET d == scanDecision(Head(modules), visibility, skipDynamic)
       IN  (IF d \in {"warn-title", "warn-slug"}
              THEN <<[route |-> extractRoutePath(Head(modules).file), issue |-> d]>>
              ELSE <<>>)
           \o scanWarningsOf(Tail(modules), visibility, skipDynamic)

scanWarnings(visibility, skipDynamic) ==
  scanWarningsOf(pageModules, visibility, skipDynamic)

\* ------------------------------------------------------------------------
\* Orderer
\* ------------------------------------------------------------------------
\* Array.prototype.sort with a consistent comparator: a stable sort.  cmp
\* holds the comparator's result for each pair of indices.  The element at
\* index i lands behind the elements that compare below it and the elements
\* that compare equal to it and stood before it.
StableSort(seq, cmp) ==
  LET n == Len(seq)
      pos(i) == 1 + Cardinality({j \in 1..n :
                       \/ cmp[j, i] < 0
                       \/ cmp[j, i] = 0 /\ j < i})
  IN  [k \in 1..n |-> seq[CHOOSE i \in 1..n : pos(i) = k]]

\* the comparator with an absent order as 0
comparePagesAbsentZero(a, b) ==
  LET aOrder == IF a.navigation.order = None THEN 0 ELSE Val(a.navigation.order)
      bOrder == IF b.navigation.order = None THEN 0 ELSE Val(b.navigation.order)
  IN  IF aOrder # bOrder THEN aOrder - bOrder
      ELSE localeCompare(a.title, b.title)

\* the comparator of sortPages; an absent order is Infinity
comparePages(a, b) ==
  LET aOrder == a.navigation.order
      bOrder == b.navigation.order
  IN  IF aOrder # bOrder
        THEN IF aOrder = None THEN 1
             ELSE IF bOrder = None THEN -1
             ELSE Val(aOrder) - Val(bOrder)
        ELSE localeCompare(a.title, b.title)

sortPages(pages) ==
  StableSort(pages, [i \in 1..Len(pages), j \in 1..Len(pages) |->
                       comparePages(pages[i], pages[j])])

\* ------------------------------------------------------------------------
\* Directory Grouper
\* ------------------------------------------------------------------------
\* the keys of the groups Map, in insertion order
RECURSIVE groupKeys(_, _)
groupKeys(pages, seen) ==
  IF pages = <<>> THEN <<>>
  ELSE LET segments == Head(pages).path
       IN  IF Len(segments) = 0 \/ segments[1] \in seen
             THEN groupKeys(Tail(pages), seen)
             ELSE <<segments[1]>> \o groupKeys(Tail(pages), seen \cup {segments[1]})

groupPagesOf(pages, segment) ==
  SelectSeq(pages, LAMBDA page : Len(page.path) > 0 /\ page.path[1] = segment)

\* the virtual parent page of a group of more than one page
parentPage(segment) ==
  [path       |-> <<segment>>,
   title      |-> formatTitle(segment),
   href       |-> <<"#">>,
   navigation |-> [title   |-> Some(formatTitle(segment)),
                   order   |-> None,
                   showIn  |-> Some([isArray |-> TRUE, vals |-> <<"header">>]),
                   type    |-> None,
                   slug    |-> None,
                   exclude |-> None]]

\* injectDirectoryNodes with a virtual parent for every group, also of one
injectDirectoryNodesAlways(pages) ==
  LET keys == groupKeys(pages, {})
  IN  Concat([k \in 1..Len(keys) |->
                <<parentPage(keys[k])>> \o groupPagesOf(pages, keys[k])])

injectDirectoryNodes(pages) ==
  LET keys == groupKeys(pages, {})
      emit(segment) ==
        LET groupPages == groupPagesOf(pages, segment)
        IN  IF Len(groupPages) = 1 THEN <<groupPages[1]>>
            ELSE <<parentPage(segment)>> \o groupPages
  IN  Concat([k \in 1..Len(keys) |-> emit(keys[k])])

\* ------------------------------------------------------------------------
\* Tree Builder
\* ------------------------------------------------------------------------
\* A Map<string, NavigationLink> is the sequence of its entries
\* [key, node] in insertion order.
mapHas(level, segment) == \E k \in 1..Len(level) : level[k].key = segment

mapIndex(level, segment) == CHOOSE k \in 1..Len(level) : level[k].key = segment

\* insertPage that puts a fresh node where a leaf finds a node
RECURSIVE insertPageReplace(_, _, _, _)
insertPageReplace(currentLevel, page, segments, i) ==
  LET segment == segments[i]
      isLeaf  == i = Len(segments)
      created == [title     |-> IF isLeaf THEN page.title ELSE formatTitle(segment),
                  href      |-> IF isLeaf THEN Some(page.href) ELSE None,
                  links     |-> IF isLeaf THEN None ELSE Some(<<>>),
                  _childMap |-> None]
      level1  ==
        IF ~mapHas(currentLevel, segment)
          THEN Append(currentLevel, [key |-> segment, node |-> created])
        ELSE IF isLeaf
          THEN [currentLevel EXCEPT ![mapIndex(currentLevel, segment)].node = created]
        ELSE currentLevel
      k       == mapIndex(level1, segment)
      node    == level1[k].node
  IN  IF isLeaf THEN level1
      ELSE [level1 EXCEPT ![k].node =
              [node EXCEPT
                 !.links = IF @ = None THEN Some(<<>>) ELSE @,
                 !._childMap = Some(insertPageReplace(IF @ = None THEN <<>> ELSE Val(@),
                                                      page, segments, i + 1))]]

\* insertPage that leaves a node it finds as it is
RECURSIVE insertPageNoOverwrite(_, _, _, _)
insertPageNoOverwrite(currentLevel, page, segments, i) ==
  LET segment == segments[i]
      isLeaf  == i = Len(segments)
      created == [title     |-> IF isLeaf THEN page.title ELSE formatTitle(segment),
                  href      |-> IF isLeaf THEN Some(page.href) ELSE None,
                  links     |-> IF isLeaf THEN None ELSE Some(<<>>),
                  _childMap |-> None]
      level1  ==
        IF ~mapHas(currentLevel, segment)
          THEN Append(currentLevel, [key |-> segment, node |-> created])
        ELSE currentLevel
      k       == mapIndex(level1, segment)
      node    == level1[k].node
  IN  IF isLeaf THEN level1
      ELSE [level1 EXCEPT ![k].node =
              [node EXCEPT
                 !.links = IF @ = None THEN Some(<<>>) ELSE @,
                 !._childMap = Some(insertPageNoOverwrite(IF @ = None THEN <<>> ELSE Val(@),
                                                          page, segments, i + 1))]]

\* the body of the segment loop of buildNavigationTree, from segment i on
RECURSIVE insertPage(_, _, _, _)
insertPage(currentLevel, page, segments, i) ==
  LET segment == segments[i]
      isLeaf  == i = Len(segments)
      created == [title     |-> IF isLeaf THEN page.title ELSE formatTitle(segment),
                  href      |-> IF isLeaf THEN Some(page.href) ELSE None,
                  links     |-> IF isLeaf THEN None ELSE Some(<<>>),
                  _childMap |-> None]
      level1  ==
        IF ~mapHas(currentLevel, segment)
          THEN Append(currentLevel, [key |-> segment, node |-> created])
        ELSE IF isLeaf
          THEN [currentLevel EXCEPT
                  ![mapIndex(currentLevel, segment)].node.title = page.title,
                  ![mapIndex(currentLevel, segment)].node.href = Some(page.href)]
        ELSE currentLevel
      k       == mapIndex(level1, segment)
      node    == level1[k].node
  IN  IF isLeaf THEN level1
      ELSE [level1 EXCEPT ![k].node =
              [node EXCEPT
                 !.links = IF @ = None THEN Some(<<>>) ELSE @,
                 !._childMap = Some(insertPage(IF @ = None THEN <<>> ELSE Val(@),
                                               page, segments, i + 1))]]

\* the page loop of buildNavigationTree
RECURSIVE buildTreeMap(_, _)
buildTreeMap(tree, pages) ==
  IF pages = <<>> THEN tree
  ELSE LET page == Head(pages)
       IN  buildTreeMap(IF Len(page.path) = 0 THEN tree
                        ELSE insertPage(tree, page, page.path, 1),
                        Tail(pages))

mapValues(level) == [k \in 1..Len(level) |-> level[k].node]

mapKeys(level) == [k \in 1..Len(level) |-> level[k].key]

compareLinks(a, b) == localeCompare(a.title, b.title)

\* sortLinks that leaves the insertion order
sortLinksUnsorted(links) == links

sortLinks(links) ==
  StableSort(links, [i \in 1..Len(links), j \in 1..Len(links) |->
                       compareLinks(links[i], links[j])])

\* convertMapToArray that does not descend into the children
convertMapToArrayShallow(node) ==
  IF node._childMap # None /\ Len(Val(node._childMap)) > 0
    THEN [node EXCEPT
            !.links = Some(mapValues(Val(node._childMap))),
            !._childMap = Some(mapKeys(Val(node._childMap)))]
    ELSE node

\* The nodes that _childMap holds are the nodes that links lists; a node of
\* the array form keeps the keys of its _childMap.
RECURSIVE convertMapToArray(_)
convertMapToArray(node) ==
  IF node._childMap # None /\ Len(Val(node._childMap)) > 0
    THEN [node EXCEPT
            !.links = Some([k \in 1..Len(Val(node._childMap)) |->
                              convertMapToArray(Val(node._childMap)[k].node)]),
            !._childMap = Some(mapKeys(Val(node._childMap)))]
    ELSE node

\* sortChildren that sorts the children of the top-level nodes only
sortChildrenShallow(link) ==
  IF link.links # None
    THEN [link EXCEPT !.links = Some(sortLinks(Val(link.links)))]
    ELSE link

RECURSIVE sortChildren(_)
sortChildren(link) ==
  IF link.links # None
    THEN LET sorted == sortLinks(Val(link.links))
         IN  [link EXCEPT !.links =
                Some([k \in 1..Len(sorted) |-> sortChildren(sorted[k])])]
    ELSE link

buildNavigationTree(pages) ==
  LET tree        == buildTreeMap(<<>>, pages)
      sortedLinks == sortLinks(mapValues(tree))
  IN  [k \in 1..Len(sortedLinks) |-> sortChildren(convertMapToArray(sortedLinks[k]))]

\* ------------------------------------------------------------------------
\* Collapser
\* ------------------------------------------------------------------------
\* !link.href: undefined or the empty string
noHref(link) == link.href = None \/ link.href = Some(<<>>)

\* collapseLink that does not collapse the children first
collapseLinkShallow(link) ==
  IF noHref(link) /\ link.links # None /\ Len(Val(link.links)) = 1
    THEN LET child == Val(link.links)[1]
         IN  [title     |-> child.title,
              href      |-> child.href,
              links     |-> child.links,
              _childMap |-> child._childMap]
    ELSE link

RECURSIVE collapseSingleChildNodes(_)
RECURSIVE collapseLink(_)
\* the loop body of collapseSingleChildNodes: what is pushed for one link
collapseLink(link) ==
  LET collapsed ==
        IF link.links # None /\ Len(Val(link.links)) > 0
          THEN [link EXCEPT !.links = Some(collapseSingleChildNodes(Val(@)))]
          ELSE link
  IN  IF noHref(collapsed) /\ collapsed.links # None /\ Len(Val(collapsed.links)) = 1
        THEN LET child == Val(collapsed.links)[1]
             IN  [title     |-> child.title,
                  href      |-> child.href,
                  links     |-> child.links,
                  _childMap |-> child._childMap]
        ELSE collapsed

collapseSingleChildNodes(links) ==
  [k \in 1..Len(links) |-> collapseLink(links[k])]

\* ------------------------------------------------------------------------
\* Link Emitter
\* ------------------------------------------------------------------------
navigationLinksToFooterLinks(navLinks) ==
  [k \in 1..Len(navLinks) |->
     LET section == navLinks[k]
         links   == IF section.links = None THEN <<>> ELSE Val(section.links)
     IN  [title |-> section.title,
          links |-> [j \in 1..Len(links) |->
                       [title |-> links[j].title, href |-> links[j].href]]]]

getPagePermalink(page, locale) == <<locale, "pages", page>>

\* injectDirectoryNodes to collapseSingleChildNodes, as generateNavigation
\* chains them
headerLinks(pages) ==
  collapseSingleChildNodes(buildNavigationTree(sortPages(injectDirectoryNodes(pages))))

generateNavigation(locale) ==
  [links   |-> headerLinks(scanPages(locale, "header", FALSE)),
   actions |-> NAVIGATION.actions]

\* generateFooterData that resolves the secondary links for locale "en"
generateFooterDataDefaultLocale(locale) ==
  [links          |-> navigationLinksToFooterLinks(
                        buildNavigationTree(sortPages(scanPages(locale, "footer", TRUE)))),
   secondaryLinks |-> [k \in 1..Len(NAVIGATION.footer.secondaryLinks) |->
                         [title |-> NAVIGATION.footer.secondaryLinks[k].title,
                          href  |-> getPagePermalink(
                                      NAVIGATION.footer.secondaryLinks[k].page, "en")]],
   footNote       |-> NAVIGATION.footer.footNote]

\* link.title is undefined for a configured entry without a title property
generateFooterData(locale) ==
  [links          |-> navigationLinksToFooterLinks(
                        buildNavigationTree(sortPages(scanPages(locale, "footer", TRUE)))),
   secondaryLinks |-> [k \in 1..Len(NAVIGATION.footer.secondaryLinks) |->
                         [title |-> NAVIGATION.footer.secondaryLinks[k].title,
                          href  |-> getPagePermalink(
                                      NAVIGATION.footer.secondaryLinks[k].page, locale)]],
   footNote       |-> NAVIGATION.footer.footNote]

\* ------------------------------------------------------------------------
\* Page inventories and configurations
\* ------------------------------------------------------------------------
File(segs, ext) == [segs |-> segs, ext |-> ext]

Nav(title, order, showIn, type, slug, exclude) ==
  [title |-> title, order |-> order, showIn |-> showIn,
   type |-> type, slug |-> slug, exclude |-> exclude]

PlainNav(title) == Nav(Some(title), None, None, None, None, None)

ShowInString(s) == Some([isArray |-> FALSE, vals |-> <<s>>])

ShowInArray(a) == Some([isArray |-> TRUE, vals |-> a])

\* a site whose pages differ in where they sit
TreeModules ==
  {[file |-> File(<<"index">>, "astro"),           navigation |-> PlainNav("About")],
   [file |-> File(<<"about">>, "astro"),           navigation |-> PlainNav("About")],
   [file |-> File(<<"docs">>, "astro"),            navigation |-> PlainNav("Documentation")],
   [file |-> File(<<"docs", "intro">>, "astro"),   navigation |-> PlainNav("Intro")],
   [file |-> File(<<"docs", "guide">>, "astro"),   navigation |-> PlainNav("Guide")],
   [file |-> File(<<"docs", "api", "auth">>, "astro"), navigation |-> PlainNav("Auth")],
   [file |-> File(<<"team", "bios">>, "astro"),    navigation |-> PlainNav("Bios")],
   [file |-> File(<<"team", "core", "leads">>, "astro"), navigation |-> PlainNav("Leads")],
   [file |-> File(<<"labs", "core", "api", "overview">>, "astro"),
    navigation |-> PlainNav("Overview")]}

\* the same site with a second file for the routes docs/intro and docs
DuplicateModules ==
  TreeModules \cup
  {[file |-> File(<<"docs", "intro">>, "md"), navigation |-> PlainNav("Introduction")],
   [file |-> File(<<"docs">>, "md"),          navigation |-> PlainNav("Reference")]}

\* the same site with a second page below team/core and a page that has a
\* navigation.order
TreeBuilderModules ==
  DuplicateModules \cup
  {[file |-> File(<<"team", "core", "about">>, "astro"), navigation |-> PlainNav("About Us")],
   [file |-> File(<<"docs", "intro">>, "astro"),
    navigation |-> [PlainNav("Intro") EXCEPT !.order = Some(1)]]}

\* a site whose pages differ in navigation.order
OrderFiles ==
  {<<File(<<"about">>, "astro"), "About">>,
   <<File(<<"docs", "intro">>, "astro"), "Intro">>,
   <<File(<<"docs", "intro">>, "md"), "Introduction">>,
   <<File(<<"docs", "guide">>, "astro"), "Guide">>}

OrderModules ==
  {[file |-> f[1], navigation |-> [PlainNav(f[2]) EXCEPT !.order = o]] :
     f \in OrderFiles, o \in {None, Some(1), Some(2)}}

\* a site with a page at the first segment its other pages share, with and
\* without a navigation.order, and two pages of one title at different levels
PrefixModules ==
  {[file |-> File(<<"about">>, "astro"),         navigation |-> PlainNav("About")],
   [file |-> File(<<"docs">>, "astro"),          navigation |-> PlainNav("Documentation")],
   [file |-> File(<<"docs">>, "md"),
    navigation |-> [PlainNav("Reference") EXCEPT !.order = Some(1)]],
   [file |-> File(<<"docs", "intro">>, "astro"), navigation |-> PlainNav("Intro")],
   [file |-> File(<<"docs", "guide">>, "astro"), navigation |-> PlainNav("Guide")],
   [file |-> File(<<"docs", "guide">>, "md"),
    navigation |-> [PlainNav("Guide") EXCEPT !.order = Some(2)]],
   [file |-> File(<<"docs", "about">>, "astro"), navigation |-> PlainNav("About")]}

\* a site whose pages differ in what the Page Filter looks at
FilterFiles ==
  {<<File(<<"about">>, "astro"), "About">>,
   <<File(<<"docs", "intro">>, "astro"), "Intro">>,
   <<File(<<"docs", "guide">>, "astro"), "Guide">>}

FilterNavs(title) ==
  {PlainNav(title),
   [PlainNav(title) EXCEPT !.showIn = ShowInString("footer")],
   [PlainNav(title) EXCEPT !.showIn = ShowInArray(<<"footer">>)],
   [PlainNav(title) EXCEPT !.showIn = ShowInArray(<<>>)],
   [PlainNav(title) EXCEPT !.exclude = Some(TRUE)],
   [PlainNav(title) EXCEPT !.exclude = Some(TRUE), !.order = Some(1),
                           !.type = Some("category"),
                           !.showIn = ShowInString("header")],
   [PlainNav(title) EXCEPT !.title = None],
   [PlainNav(title) EXCEPT !.type = Some("category")],
   [PlainNav(title) EXCEPT !.type = Some("category"), !.slug = Some(<<>>)],
   [PlainNav(title) EXCEPT !.type = Some("tag"), !.slug = Some(<<"tutorials">>),
                           !.showIn = ShowInArray(<<"header", "footer">>)]}

FilterModules ==
  UNION {{[file |-> f[1], navigation |-> n] : n \in FilterNavs(f[2])} :
           f \in FilterFiles}

\* a site with catch-all and single-parameter routes, whose pages differ in
\* showIn
ScanNavs(title) ==
  {PlainNav(title),
   [PlainNav(title) EXCEPT !.showIn = ShowInString("header")],
   [PlainNav(title) EXCEPT !.showIn = ShowInString("footer")],
   [PlainNav(title) EXCEPT !.showIn = ShowInString("")],
   [PlainNav(title) EXCEPT !.showIn = ShowInArray(<<>>)],
   [PlainNav(title) EXCEPT !.showIn = ShowInArray(<<"header">>)],
   [PlainNav(title) EXCEPT !.showIn = ShowInArray(<<"footer">>)],
   [PlainNav(title) EXCEPT !.showIn = ShowInArray(<<"footer", "header">>)]}

RouteNavs(title) ==
  {PlainNav(title),
   [PlainNav(title) EXCEPT !.showIn = ShowInString("footer")]}

ScanModules ==
  {[file |-> File(<<"about">>, "astro"), navigation |-> n] : n \in ScanNavs("About")}
  \cup {[file |-> File(<<"[...blog]", "index">>, "astro"), navigation |-> n] :
          n \in RouteNavs("Blog")}
  \cup {[file |-> File(<<"blog", "[...page]">>, "astro"), navigation |-> n] :
          n \in RouteNavs("Overview")}
  \cup {[file |-> File(<<"blog", "[tag]">>, "astro"), navigation |-> n] :
          n \in RouteNavs("Tutorials")}

\* import.meta.glob keys are file paths: an inventory is a sequence of at
\* most n modules no two of which share a file
RECURSIVE InventoriesOf(_, _)
InventoriesOf(modules, n) ==
  IF n = 0 THEN {<<>>}
  ELSE LET shorter == InventoriesOf(modules, n - 1)
       IN  shorter \cup
           UNION {{Append(inv, m) :
                     m \in {x \in modules :
                              \A i \in 1..Len(inv) : inv[i].file # x.file}} :
                    inv \in {t \in shorter : Len(t) = n - 1}}

Inventories(modules) == InventoriesOf(modules, MaxPages)

\* an entry of navigation.footer.secondaryLinks: the builder's type names
\* the label text, generateFooterData reads title
SecondaryLink(title, text, page) == [title |-> title, text |-> text, page |-> page]

\* the NAVIGATION of a configured site
SiteNavigation ==
  [actions |-> <<[text |-> "Download", href |-> <<"https:", "github.com">>]>>,
   footer  |-> [secondaryLinks |-> <<SecondaryLink(Some("Terms"), None, "terms")>>,
                footNote       |-> "Made by Arthelokyo"]]

\* sites that differ in navigation.footer; getNavigation fills an absent
\* secondaryLinks with [] and an absent footNote with ''
FooterConfigs ==
  {[actions |-> <<>>, footer |-> [secondaryLinks |-> l, footNote |-> f]] :
     l \in {<<>>,
            <<SecondaryLink(Some("Terms"), None, "terms")>>,
            <<SecondaryLink(None, Some("Terms"), "terms")>>,
            <<SecondaryLink(Some("Terms"), None, "terms"),
              SecondaryLink(Some("Privacy Policy"), None, "privacy")>>,
            <<SecondaryLink(Some("Privacy Policy"), None, "privacy"),
              SecondaryLink(Some("Terms"), None, "terms")>>},
     f \in {"", "Made by Arthelokyo"}}

ConfigModules ==
  {[file |-> File(<<"about">>, "astro"),         navigation |-> PlainNav("About")],
   [file |-> File(<<"docs", "intro">>, "astro"), navigation |-> PlainNav("Intro")]}

\* ------------------------------------------------------------------------
\* State machine
\* ------------------------------------------------------------------------
\* src/middleware.js at import: both loadLocales calls are pending, no
\* request has come in
Catalogs == {"main", "navigation"}

InitMiddleware ==
  /\ loaded = [c \in Catalogs |-> "pending"]
  /\ ready = FALSE
  /\ readyPromise = "pending"
  /\ requests = [r \in Requests |-> [pc |-> "idle", waited |-> FALSE]]

\* ------------------------------------------------------------------------
\* Configuration builder: getI18N
\* ------------------------------------------------------------------------
\* values of the parsed src/config.yaml
Undefined == [type |-> "undefined", v |-> ""]

Str(s) == [type |-> "string", v |-> s]

Num(n) == [type |-> "number", v |-> n]

Arr(items) == [type |-> "array", items |-> items]

\* String.prototype.toUpperCase, for the locale codes that occur
toUpperCase(str) ==
  CASE str = "en" -> "EN"
    [] str = "es" -> "ES"
    [] str = "fr" -> "FR"

\* !x for a configuration value
falsy(x) == x.type = "undefined" \/ (x.type = "string" /\ x.v = "")

\* the forEach over value.locales, from item i on: the localeNames object
\* it leaves and whether locale.toUpperCase threw
RECURSIVE fillLocaleNames(_, _, _)
fillLocaleNames(localeNames, items, i) ==
  IF i > Len(items) THEN [localeNames |-> localeNames, threw |-> FALSE]
  ELSE LET locale == items[i]
           key    == locale.v
       IN  IF key \in DOMAIN localeNames /\ localeNames[key] # ""
             THEN fillLocaleNames(localeNames, items, i + 1)
           ELSE IF locale.type # "string"
             THEN [localeNames |-> localeNames, threw |-> TRUE]
           ELSE fillLocaleNames(
                  [k \in DOMAIN localeNames \cup {key} |->
                     IF k = key THEN toUpperCase(key) ELSE localeNames[k]],
                  items, i + 1)

\* getI18N without the check that defaultLocale is one of locales
getI18NAnyDefault(cfg) ==
  IF cfg.i18n = None THEN [threw |-> "Error"]
  ELSE LET i18nConfig == Val(cfg.i18n)
       IN  IF i18nConfig.locales.type # "array" \/ Len(i18nConfig.locales.items) = 0
             THEN [threw |-> "Error"]
           ELSE IF falsy(i18nConfig.defaultLocale) \/ i18nConfig.defaultLocale.type # "string"
             THEN [threw |-> "Error"]
           ELSE LET filled == fillLocaleNames(
                                IF i18nConfig.localeNames = None THEN <<>>
                                ELSE Val(i18nConfig.localeNames),
                                i18nConfig.locales.items, 1)
                IN  IF filled.threw
                      THEN [threw |-> "TypeError", localeNames |-> filled.localeNames]
                    ELSE [threw |-> "",
                          localeNames |-> filled.localeNames,
                          value |->
                            [language      |-> IF falsy(i18nConfig.language)
                                                 THEN i18nConfig.defaultLocale
                                                 ELSE i18nConfig.language,
                             textDirection |-> IF falsy(i18nConfig.textDirection)
                                                 THEN Str("ltr")
                                                 ELSE i18nConfig.textDirection,
                             locales       |-> i18nConfig.locales,
                             defaultLocale |-> i18nConfig.defaultLocale,
                             localeNames   |-> filled.localeNames]]

\* getI18N(config): what it throws, or the value it returns; localeNames is
\* the localeNames object as the forEach left it
getI18N(cfg) ==
  IF cfg.i18n = None THEN [threw |-> "Error"]
  ELSE LET i18nConfig == Val(cfg.i18n)
       IN  IF i18nConfig.locales.type # "array" \/ Len(i18nConfig.locales.items) = 0
             THEN [threw |-> "Error"]
           ELSE IF falsy(i18nConfig.defaultLocale) \/ i18nConfig.defaultLocale.type # "string"
             THEN [threw |-> "Error"]
           ELSE IF i18nConfig.defaultLocale \notin Range(i18nConfig.locales.items)
             THEN [threw |-> "Error"]
           ELSE LET filled == fillLocaleNames(
                                IF i18nConfig.localeNames = None THEN <<>>
                                ELSE Val(i18nConfig.localeNames),
                                i18nConfig.locales.items, 1)
                IN  IF filled.threw
                      THEN [threw |-> "TypeError", localeNames |-> filled.localeNames]
                    ELSE [threw |-> "",
                          localeNames |-> filled.localeNames,
                          value |->
                            [language      |-> IF falsy(i18nConfig.language)
                                                 THEN i18nConfig.defaultLocale
                                                 ELSE i18nConfig.language,
                             textDirection |-> IF falsy(i18nConfig.textDirection)
                                                 THEN Str("ltr")
                                                 ELSE i18nConfig.textDirection,
                             locales       |-> i18nConfig.locales,
                             defaultLocale |-> i18nConfig.defaultLocale,
                             localeNames   |-> filled.localeNames]]

\* the i18n sections a src/config.yaml may hold
LocaleName(k) ==
  CASE k = "en" -> "English"
    [] k = "es" -> "Espanol"
    [] k = "fr" -> "Francais"

\* a localeNames object is the function from its keys to the names
LocaleNames(keys) == Some([k \in keys |-> LocaleName(k)])

I18NSections ==
  {[language |-> Undefined, textDirection |-> d, locales |-> l,
    defaultLocale |-> dl, localeNames |-> n] :
     d  \in {Undefined, Str("rtl")},
     l  \in {Undefined, Str("en"), Arr(<<>>), Arr(<<Str("en")>>),
             Arr(<<Str("en"), Str("es")>>), Arr(<<Str("es"), Str("en"), Str("es")>>),
             Arr(<<Str("en"), Num("42")>>)},
     dl \in {Undefined, Str(""), Num("42"), Str("en"), Str("es"), Str("fr")},
     n  \in {None, Some(<<>>),
             LocaleNames({"en"}), LocaleNames({"en", "es"}),
             LocaleNames({"fr"}), Some([k \in {"en"} |-> ""])}}

BuilderConfigs == {[i18n |-> None]} \cup {[i18n |-> Some(x)] : x \in I18NSections}

\* the configuration of the site
SiteConfig ==
  [i18n |-> Some([language |-> Undefined, textDirection |-> Undefined,
                  locales |-> Arr(<<Str("en"), Str("es")>>),
                  defaultLocale |-> Str("en"),
                  localeNames |-> LocaleNames({"en", "es"})])]

InitBuilder(configs) ==
  /\ config \in configs
  /\ I18N = None

InitNavigation(modules, configs) ==
  /\ pageModules \in Inventories(modules)
  /\ NAVIGATION \in configs
  /\ headerData = None
  /\ footerData = None
  /\ scanned = None
  /\ navTree = None

\* src/utils/pages.ts at import: let _pages is undefined, nothing is loaded
InitPages ==
  /\ _pages = None
  /\ loads = 0
  /\ fetches = <<>>

InitOf(modules, configs) ==
  /\ InitNavigation(modules, configs)
  /\ InitMiddleware
  /\ InitBuilder({SiteConfig})
  /\ InitPages

Init == InitOf(TreeModules, {SiteNavigation})

InitOrder == InitOf(OrderModules, {SiteNavigation})

InitFilter == InitOf(FilterModules, {SiteNavigation})

InitPrefix == InitOf(PrefixModules, {SiteNavigation})

\* getHeaderData that keeps the result of the first call for every later
\* call
GenerateNavigationMemo(locale) ==
  /\ headerData' = Some([locale   |-> locale,
                         data     |-> IF headerData # None THEN Val(headerData).data
                                      ELSE generateNavigation(locale),
                         warnings |-> scanWarnings("header", FALSE)])
  /\ UNCHANGED <<pageModules, NAVIGATION, footerData, scanned, navTree>>
  /\ UNCHANGED <<middlewareVars, builderVars, pagesVars>>

\* getHeaderData(locale)
GenerateNavigation(locale) ==
  /\ headerData' = Some([locale   |-> locale,
                         data     |-> generateNavigation(locale),
                         warnings |-> scanWarnings("header", FALSE)])
  /\ UNCHANGED <<pageModules, NAVIGATION, footerData, scanned, navTree>>
  /\ UNCHANGED <<middlewareVars, builderVars, pagesVars>>

\* getFooterData(locale)
GenerateFooterData(locale) ==
  /\ footerData' = Some([locale   |-> locale,
                         data     |-> generateFooterData(locale),
                         warnings |-> scanWarnings("footer", TRUE)])
  /\ UNCHANGED <<pageModules, NAVIGATION, headerData, scanned, navTree>>
  /\ UNCHANGED <<middlewareVars, builderVars, pagesVars>>

Next ==
  \E locale \in Locales :
    \/ GenerateNavigation(locale)
    \/ GenerateFooterData(locale)

Spec == Init /\ [][Next]_vars

SpecOrder == InitOrder /\ [][Next]_vars

SpecFilter == InitFilter /\ [][Next]_vars

SpecPrefix == InitPrefix /\ [][Next]_vars

InitConfig == InitOf(ConfigModules, FooterConfigs)

SpecConfig == InitConfig /\ [][Next]_vars

\* the Page Filter by itself: scanPages(locale, visibility, {skipDynamic}),
\* visibility "" standing for undefined
InitScan == InitOf(ScanModules, {SiteNavigation})

ScanPages(locale, visibility, skipDynamic) ==
  /\ scanned' = Some([locale      |-> locale,
                      visibility  |-> visibility,
                      skipDynamic |-> skipDynamic,
                      pages       |-> scanPages(locale, visibility, skipDynamic),
                      warnings    |-> scanWarnings(visibility, skipDynamic)])
  /\ UNCHANGED <<pageModules, NAVIGATION, headerData, footerData, navTree>>
  /\ UNCHANGED <<middlewareVars, builderVars, pagesVars>>

NextScan ==
  \E locale \in Locales, visibility \in {"header", "footer", ""}, skipDynamic \in BOOLEAN :
    ScanPages(locale, visibility, skipDynamic)

SpecScan == InitScan /\ [][NextScan]_vars

\* the Tree Builder and the Collapser by themselves, over the pages of the
\* inventory in the order the inventory has them:
\* collapseSingleChildNodes(buildNavigationTree(pages))
BuildTree(locale) ==
  /\ navTree' =
       LET pages == scanPages(locale, "", FALSE)
           links == buildNavigationTree(pages)
       IN  Some([pages     |-> pages,
                 links     |-> links,
                 collapsed |-> collapseSingleChildNodes(links)])
  /\ UNCHANGED <<pageModules, NAVIGATION, headerData, footerData, scanned>>
  /\ UNCHANGED <<middlewareVars, builderVars, pagesVars>>

NextTree == \E locale \in Locales : BuildTree(locale)

InitTree == InitOf(TreeBuilderModules, {SiteNavigation})

SpecTree == InitTree /\ [][NextTree]_vars

\* ------------------------------------------------------------------------
\* Middleware (src/middleware.js)
\* ------------------------------------------------------------------------
navigationVars == <<pageModules, NAVIGATION, headerData, footerData, scanned, navTree>>

\* loadLocales(key, loadIDs, loadCatalog, locales) settles: fulfilled
LoadLocales(catalog) ==
  /\ loaded[catalog] = "pending"
  /\ loaded' = [loaded EXCEPT ![catalog] = "loaded"]
  /\ UNCHANGED <<ready, readyPromise, requests, navigationVars, builderVars, pagesVars>>

\* loadLocales settles: rejected
LoadLocalesFails(catalog) ==
  /\ loaded[catalog] = "pending"
  /\ loaded' = [loaded EXCEPT ![catalog] = "rejected"]
  /\ UNCHANGED <<ready, readyPromise, requests, navigationVars, builderVars, pagesVars>>

\* Promise.all fulfilled: the then callback sets ready, which fulfils
\* readyPromise
ReadyCallback ==
  /\ readyPromise = "pending"
  /\ \A c \in Catalogs : loaded[c] = "loaded"
  /\ ready' = TRUE
  /\ readyPromise' = "fulfilled"
  /\ UNCHANGED <<loaded, requests, navigationVars, builderVars, pagesVars>>

\* Promise.all rejected: the callback is skipped and readyPromise rejects
ReadyRejected ==
  /\ readyPromise = "pending"
  /\ \E c \in Catalogs : loaded[c] = "rejected"
  /\ readyPromise' = "rejected"
  /\ UNCHANGED <<loaded, ready, requests, navigationVars, builderVars, pagesVars>>

\* onRequest that goes to runWithLocale without looking at ready
OnRequestNoWait(r) ==
  /\ requests[r].pc = "idle"
  /\ requests' = [requests EXCEPT ![r].pc = "runWithLocale"]
  /\ UNCHANGED <<loaded, ready, readyPromise, navigationVars, builderVars, pagesVars>>

\* onRequest(context, next) up to its first suspension: await readyPromise
\* when ready is false, else runWithLocale(locale, next)
OnRequest(r) ==
  /\ requests[r].pc = "idle"
  /\ requests' = [requests EXCEPT ![r] =
                    IF ~ready THEN [pc |-> "await", waited |-> TRUE]
                    ELSE [pc |-> "runWithLocale", waited |-> FALSE]]
  /\ UNCHANGED <<loaded, ready, readyPromise, navigationVars, builderVars, pagesVars>>

\* the await returns: runWithLocale(locale, next)
Resume(r) ==
  /\ requests[r].pc = "await"
  /\ readyPromise = "fulfilled"
  /\ requests' = [requests EXCEPT ![r].pc = "runWithLocale"]
  /\ UNCHANGED <<loaded, ready, readyPromise, navigationVars, builderVars, pagesVars>>

\* the await throws the rejection: onRequest rejects
Throw(r) ==
  /\ requests[r].pc = "await"
  /\ readyPromise = "rejected"
  /\ requests' = [requests EXCEPT ![r].pc = "rejected"]
  /\ UNCHANGED <<loaded, ready, readyPromise, navigationVars, builderVars, pagesVars>>

\* the handler that runWithLocale ran returns the response
Return(r) ==
  /\ requests[r].pc = "runWithLocale"
  /\ requests' = [requests EXCEPT ![r].pc = "returned"]
  /\ UNCHANGED <<loaded, ready, readyPromise, navigationVars, builderVars, pagesVars>>

NextMiddleware ==
  \/ \E c \in Catalogs : LoadLocales(c) \/ LoadLocalesFails(c)
  \/ ReadyCallback
  \/ ReadyRejected
  \/ \E r \in Requests : OnRequest(r) \/ Resume(r) \/ Throw(r) \/ Return(r)

\* the event loop runs every job that is ready, and a load settles
FairMiddleware ==
  /\ \A c \in Catalogs : WF_vars(LoadLocales(c) \/ LoadLocalesFails(c))
  /\ WF_vars(ReadyCallback)
  /\ WF_vars(ReadyRejected)
  /\ \A r \in Requests : WF_vars(Resume(r)) /\ WF_vars(Throw(r)) /\ WF_vars(Return(r))

SpecMiddleware ==
  InitOf({}, {SiteNavigation}) /\ [][NextMiddleware]_vars /\ FairMiddleware

\* ------------------------------------------------------------------------
\* Content pages (src/utils/pages.ts)
\* ------------------------------------------------------------------------
\* the ids of the entries that getCollection('pages') yields
PagesCollection ==
  <<<<"en", "about">>, <<"en", "Privacy Policy">>, <<"es", "about">>>>

getLangFromPageId(id) == id[1]

\* cleanSlug, tabulated for the slugs that occur
cleanSlug(slug) ==
  CASE slug = "Privacy Policy" -> "privacy-policy"
    [] OTHER                   -> slug

getNormalizedPage(id) ==
  LET slug == cleanSlug(id[Len(id)])
  IN  [id        |-> id,
       slug      |-> slug,
       permalink |-> <<getLangFromPageId(id), "pages", slug>>]

\* load(): each call builds a new array; array is the number of the load()
\* call that built it
load(array) ==
  [array |-> array,
   items |-> [k \in 1..Len(PagesCollection) |-> getNormalizedPage(PagesCollection[k])]]

\* what fetchPages returns once _pages holds pages
servedPages(pages, lang) ==
  LET hasLang(page) == getLangFromPageId(page.id) = Val(lang)
  IN  IF lang # None THEN SelectSeq(pages.items, hasLang) ELSE pages.items

\* fetchPages(lang) up to its first await, or to its return when _pages is
\* set
FetchPages(lang) ==
  /\ Len(fetches) < MaxFetches
  /\ IF _pages = None
       THEN /\ loads' = loads + 1
            /\ fetches' = Append(fetches, [lang  |-> lang, pc |-> "load",
                                           array |-> loads + 1, items |-> <<>>])
       ELSE /\ loads' = loads
            /\ fetches' = Append(fetches, [lang  |-> lang, pc |-> "returned",
                                           array |-> Val(_pages).array,
                                           items |-> servedPages(Val(_pages), lang)])
  /\ UNCHANGED _pages
  /\ UNCHANGED <<navigationVars, middlewareVars, builderVars>>

\* the load() that call k awaits resolves: _pages = await load(), then the
\* return
LoadResolved(k) ==
  /\ fetches[k].pc = "load"
  /\ _pages' = Some(load(fetches[k].array))
  /\ fetches' = [fetches EXCEPT ![k] =
                   [@ EXCEPT !.pc = "returned",
                             !.items = servedPages(load(fetches[k].array),
                                                    fetches[k].lang)]]
  /\ UNCHANGED loads
  /\ UNCHANGED <<navigationVars, middlewareVars, builderVars>>

NextPages ==
  \/ \E lang \in {None} \cup {Some(l) : l \in Locales} : FetchPages(lang)
  \/ \E k \in 1..Len(fetches) : LoadResolved(k)

InitFetchPages == InitOf({}, {SiteNavigation})

SpecPages == InitFetchPages /\ [][NextPages]_vars

\* the builder evaluates getI18N(config) once; the forEach writes into the
\* localeNames object of the configuration when there is one
GetI18N ==
  /\ I18N = None
  /\ I18N' = Some([threw |-> getI18N(config).threw] @@
                  (IF getI18N(config).threw = "" THEN [value |-> getI18N(config).value]
                   ELSE <<>>))
  /\ config' = IF "localeNames" \in DOMAIN getI18N(config)
                   /\ Val(config.i18n).localeNames # None
                 THEN [i18n |-> Some([Val(config.i18n) EXCEPT
                                        !.localeNames = Some(getI18N(config).localeNames)])]
                 ELSE config
  /\ UNCHANGED <<navigationVars, middlewareVars, pagesVars>>

NextBuilder == GetI18N

InitGetI18N ==
  /\ InitNavigation({}, {SiteNavigation})
  /\ InitMiddleware
  /\ InitBuilder(BuilderConfigs)
  /\ InitPages

SpecBuilder == InitGetI18N /\ [][NextBuilder]_vars

\* ------------------------------------------------------------------------
\* Vocabulary of the properties
\* ------------------------------------------------------------------------
\* every node of a links tree, at any depth
RECURSIVE NodesOf(_)
NodesOf(links) ==
  UNION {{links[k]} \cup (IF links[k].links = None THEN {}
                          ELSE NodesOf(Val(links[k].links))) :
           k \in 1..Len(links)}

\* every sibling list of a links tree: the top level and each children list
RECURSIVE SiblingLists(_)
SiblingLists(links) ==
  {links} \cup UNION {IF links[k].links = None THEN {}
                      ELSE SiblingLists(Val(links[k].links)) :
                        k \in 1..Len(links)}

ChildCount(node) == IF node.links = None THEN 0 ELSE Len(Val(node.links))

HeaderLocale == Val(headerData).locale

HeaderLinks == Val(headerData).data.links

FooterLocale == Val(footerData).locale

FooterLinks == Val(footerData).data.links

TypeOf(m) == IF m.navigation.type = None THEN "page" ELSE Val(m.navigation.type)

\* the value the permalink resolver returns for a module
ResolvedHref(m, locale) ==
  getPermalink(IF m.navigation.slug = None THEN extractRoutePath(m.file)
               ELSE Val(m.navigation.slug),
               TypeOf(m), locale)

HasTitle(m) == m.navigation.title # None /\ m.navigation.title # Some("")

\* the showIn set of a module: a string is a one-element set
ShowInSet(m) ==
  IF m.navigation.showIn = None THEN {}
  ELSE IF Val(m.navigation.showIn).isArray THEN Range(Val(m.navigation.showIn).vals)
  ELSE {Val(m.navigation.showIn).vals[1]} \ {""}

VisibleOn(m, channel) == ShowInSet(m) = {} \/ channel \in ShowInSet(m)

\* the modules that generateNavigation shows in the header: not the home
\* page, not excluded, titled, visible in the header, no empty slug on a
\* category or tag
HeaderModules ==
  {m \in Range(pageModules) :
     /\ extractRoutePath(m.file) # <<>>
     /\ m.navigation.exclude # Some(TRUE)
     /\ HasTitle(m)
     /\ VisibleOn(m, "header")
     /\ ~(TypeOf(m) \in {"category", "tag"} /\ m.navigation.slug = Some(<<>>))}

\* the same for the footer, which also leaves out catch-all routes
FooterModules ==
  {m \in Range(pageModules) :
     /\ extractRoutePath(m.file) # <<>>
     /\ \A i \in 1..Len(m.file.segs) : ~isDynamicSegment(m.file.segs[i])
     /\ m.navigation.exclude # Some(TRUE)
     /\ HasTitle(m)
     /\ VisibleOn(m, "footer")
     /\ ~(TypeOf(m) \in {"category", "tag"} /\ m.navigation.slug = Some(<<>>))}

FirstSegment(m) == extractRoutePath(m.file)[1]

\* the modules a node may stand for: same title, same resolved href
ModulesOf(node, locale) ==
  {m \in HeaderModules :
     /\ m.navigation.title = Some(node.title)
     /\ node.href = Some(ResolvedHref(m, locale))}

\* the tree generateNavigation hands to the Collapser
PreCollapseLinks(locale) ==
  buildNavigationTree(sortPages(injectDirectoryNodes(scanPages(locale, "header", FALSE))))

\* ------------------------------------------------------------------------
\* C1: in every output of generateNavigation no node, at any depth, lacks
\* an href while having exactly one child.
\* ------------------------------------------------------------------------
C1_CollapseInvariant ==
  headerData # None =>
    \A n \in NodesOf(HeaderLinks) : ~(noHref(n) /\ ChildCount(n) = 1)

\* a call whose tree held an href-less single-child node under another one
\* before the Collapser ran
C1_Witness ==
  /\ headerData # None
  /\ \E n \in NodesOf(PreCollapseLinks(HeaderLocale)) :
       /\ noHref(n) /\ ChildCount(n) = 1
       /\ noHref(Val(n.links)[1]) /\ ChildCount(Val(n.links)[1]) = 1

\* ------------------------------------------------------------------------
\* C2: in every sibling list of generateNavigation's output the pages with
\* a defined navigation.order appear in ascending order of it, and every
\* page without an order comes after all the pages of that list that have
\* one.
\* ------------------------------------------------------------------------
C2_OrderingInvariant ==
  headerData # None =>
    \A L \in SiblingLists(HeaderLinks) :
      \A i, j \in 1..Len(L) :
        i < j =>
          \A a \in ModulesOf(L[i], HeaderLocale), b \in ModulesOf(L[j], HeaderLocale) :
            b.navigation.order # None =>
              /\ a.navigation.order # None
              /\ Val(a.navigation.order) <= Val(b.navigation.order)

\* ------------------------------------------------------------------------
\* C3: every href in generateNavigation's output is the value the permalink
\* resolver returned for the page the node stands for.
\* ------------------------------------------------------------------------
C3_HrefRoundTrip ==
  headerData # None =>
    \A n \in NodesOf(HeaderLinks) :
      n.href # None =>
        \E m \in HeaderModules : n.href = Some(ResolvedHref(m, HeaderLocale))

\* ------------------------------------------------------------------------
\* C4: a page of type "category" or "tag" without navigation.slug, which
\* the earlier filter rules keep, is left out of generateNavigation's output
\* and a warning is logged for it.
\* ------------------------------------------------------------------------
C4_MissingSlugDropped ==
  headerData # None =>
    \A m \in HeaderModules :
      (TypeOf(m) \in {"category", "tag"} /\ m.navigation.slug = None) =>
        /\ \A n \in NodesOf(HeaderLinks) :
             n.href # Some(ResolvedHref(m, HeaderLocale))
        /\ \E k \in 1..Len(Val(headerData).warnings) :
             /\ Val(headerData).warnings[k].route = extractRoutePath(m.file)
             /\ Val(headerData).warnings[k].issue = "warn-slug"

\* ------------------------------------------------------------------------
\* C5: a page whose showIn set is non-empty and lacks "header" leaves no
\* trace in generateNavigation's tree, whatever the other pages are: the
\* tree is the tree of the inventory without such pages, and a node carries
\* the href or the title of such a page only when a page shown in the header
\* (or, for the title, a directory segment) supplies it.
\* ------------------------------------------------------------------------
HiddenFromHeader(m) == ShowInSet(m) # {} /\ "header" \notin ShowInSet(m)

C5_VisibilityInvariant ==
  headerData # None =>
    /\ HeaderLinks =
         headerLinks(scanPagesOf(SelectSeq(pageModules, LAMBDA m : ~HiddenFromHeader(m)),
                                 HeaderLocale, "header", FALSE))
    /\ \A m \in Range(pageModules), n \in NodesOf(HeaderLinks) :
         HiddenFromHeader(m) =>
           /\ n.href = Some(ResolvedHref(m, HeaderLocale)) =>
                \E v \in HeaderModules :
                  ResolvedHref(v, HeaderLocale) = ResolvedHref(m, HeaderLocale)
           /\ m.navigation.title = Some(n.title) =>
                \E v \in HeaderModules :
                  \/ v.navigation.title = Some(n.title)
                  \/ \E i \in 1..Len(v.file.segs) : formatTitle(v.file.segs[i]) = n.title

\* a call over an inventory with a titled, not excluded page that only the
\* showIn rule keeps out, next to a page that is shown
C5_Witness ==
  /\ headerData # None
  /\ HeaderLinks # <<>>
  /\ \E m \in Range(pageModules) :
       HiddenFromHeader(m) /\ HasTitle(m) /\ m.navigation.exclude = None

AloneInGroup(m) ==
  \A o \in HeaderModules : FirstSegment(o) = FirstSegment(m) => o = m

C7_SingletonAtTopLevel ==
  headerData # None =>
    /\ \A m \in HeaderModules :
         AloneInGroup(m) =>
           /\ \E k \in 1..Len(HeaderLinks) :
                /\ HeaderLinks[k].title = Val(m.navigation.title)
                /\ HeaderLinks[k].href = Some(ResolvedHref(m, HeaderLocale))
                /\ ChildCount(HeaderLinks[k]) = 0
           /\ \A n \in NodesOf(HeaderLinks) :
                n.href = Some(ResolvedHref(m, HeaderLocale)) => n \in Range(HeaderLinks)
    /\ Len(HeaderLinks) = Cardinality({FirstSegment(m) : m \in HeaderModules})

\* a call over an inventory where a page three or more segments deep is
\* alone under its first segment, next to another group
C7_Witness ==
  /\ headerData # None
  /\ Len(HeaderLinks) >= 2
  /\ \E m \in HeaderModules : AloneInGroup(m) /\ Len(m.file.segs) >= 3

\* ------------------------------------------------------------------------
\* C8: when the pages shown in the header under a first segment are two or
\* more pages with two-segment paths, the output has exactly one top-level
\* node titled formatTitle(segment), and its children are exactly those
\* pages, in alphabetical order of title.
\* ------------------------------------------------------------------------
GroupOf(segment) == {m \in HeaderModules : FirstSegment(m) = segment}

SharedTwoSegment(segment) ==
  /\ Cardinality(GroupOf(segment)) >= 2
  /\ \A m \in GroupOf(segment) : Len(m.file.segs) = 2

DistinctPaths(modules) ==
  \A a, b \in modules : a.file.segs = b.file.segs => a = b

ChildrenAreGroup(segment) ==
  /\ Cardinality({k \in 1..Len(HeaderLinks) :
                    HeaderLinks[k].title = formatTitle(segment)}) = 1
  /\ LET k == CHOOSE i \in 1..Len(HeaderLinks) :
                HeaderLinks[i].title = formatTitle(segment)
         children == IF HeaderLinks[k].links = None THEN <<>>
                     ELSE Val(HeaderLinks[k].links)
     IN  /\ Len(children) = Cardinality(GroupOf(segment))
         /\ \A m \in GroupOf(segment) :
              \E j \in 1..Len(children) :
                /\ children[j].title = Val(m.navigation.title)
                /\ children[j].href = Some(ResolvedHref(m, HeaderLocale))
                /\ ChildCount(children[j]) = 0
         /\ \A i, j \in 1..Len(children) :
              i < j => TitleRank(children[i].title) <= TitleRank(children[j].title)

\* the claim as it stands: any two or more pages
C8_SharedSegmentGroup ==
  headerData # None =>
    \A m \in HeaderModules :
      SharedTwoSegment(FirstSegment(m)) => ChildrenAreGroup(FirstSegment(m))

\* C8 as amended: the pages have pairwise distinct paths
C8_SharedSegmentGroupDistinct ==
  headerData # None =>
    \A m \in HeaderModules :
      (SharedTwoSegment(FirstSegment(m)) /\ DistinctPaths(GroupOf(FirstSegment(m))))
        => ChildrenAreGroup(FirstSegment(m))

\* a call over two pages docs/x and docs/y whose navigation.order runs
\* against the alphabet
C8_Witness ==
  /\ headerData # None
  /\ \E a, b \in HeaderModules :
       /\ SharedTwoSegment(FirstSegment(a)) /\ DistinctPaths(GroupOf(FirstSegment(a)))
       /\ FirstSegment(a) = FirstSegment(b)
       /\ TitleRank(Val(a.navigation.title)) < TitleRank(Val(b.navigation.title))
       /\ a.navigation.order = Some(2) /\ b.navigation.order = Some(1)

\* ------------------------------------------------------------------------
\* C9: the virtual parent page that injectDirectoryNodes synthesizes has no
\* href, and the node it yields for a segment no page sits at has none.
\* ------------------------------------------------------------------------
C9_VirtualParentNoHref ==
  headerData # None =>
    LET pages    == scanPages(HeaderLocale, "header", FALSE)
        injected == injectDirectoryNodes(pages)
        tree     == buildTreeMap(<<>>, sortPages(injected))
    IN  /\ \A i \in 1..Len(injected) :
             injected[i] \notin Range(pages) => injected[i].href = <<>>
        /\ \A k \in 1..Len(tree) :
             (\A i \in 1..Len(pages) : pages[i].path # <<tree[k].key>>)
               => noHref(tree[k].node)

\* ------------------------------------------------------------------------
\* C10: in generateFooterData's output a page shown in the footer that is
\* the only member of its first-segment group is a flat top-level link with
\* the page's title and href, without a section around it.
\* ------------------------------------------------------------------------
C10_FooterSingletonFlat ==
  footerData # None =>
    \A m \in FooterModules :
      (\A o \in FooterModules : FirstSegment(o) = FirstSegment(m) => o = m) =>
        \E k \in 1..Len(FooterLinks) :
          /\ FooterLinks[k].title = Val(m.navigation.title)
          /\ "href" \in DOMAIN FooterLinks[k]
          /\ FooterLinks[k].href = Some(ResolvedHref(m, FooterLocale))

\* ------------------------------------------------------------------------
\* C11: in generateFooterData's output every entry of a section's links
\* list has a defined href, and that href is the resolved href of a page
\* shown in the footer, whatever the depth of the page paths.
\* ------------------------------------------------------------------------
C11_FooterLinksResolved ==
  footerData # None =>
    \A k \in 1..Len(FooterLinks) :
      \A j \in 1..Len(FooterLinks[k].links) :
        /\ FooterLinks[k].links[j].href # None
        /\ \E m \in FooterModules :
             FooterLinks[k].links[j].href = Some(ResolvedHref(m, FooterLocale))

\* ------------------------------------------------------------------------
\* C12: a page with navigation.exclude === true leaves no trace in the
\* output of generateNavigation or of generateFooterData, whatever its other
\* navigation fields: each output is the output for the inventory without
\* the excluded pages, and a node carries the href of an excluded page only
\* when a page that is shown supplies it.
\* ------------------------------------------------------------------------
Excluded(m) == m.navigation.exclude = Some(TRUE)

NotExcluded == SelectSeq(pageModules, LAMBDA m : ~Excluded(m))

C12_ExcludedNeverAppears ==
  /\ headerData # None =>
       /\ HeaderLinks = headerLinks(scanPagesOf(NotExcluded, HeaderLocale, "header", FALSE))
       /\ \A m \in Range(pageModules), n \in NodesOf(HeaderLinks) :
            (Excluded(m) /\ n.href = Some(ResolvedHref(m, HeaderLocale))) =>
              \E v \in HeaderModules :
                ResolvedHref(v, HeaderLocale) = ResolvedHref(m, HeaderLocale)
  /\ footerData # None =>
       /\ FooterLinks =
            navigationLinksToFooterLinks(buildNavigationTree(sortPages(
              scanPagesOf(NotExcluded, FooterLocale, "footer", TRUE))))
       /\ \A m \in Range(pageModules), k \in 1..Len(FooterLinks) :
            \A j \in 1..Len(FooterLinks[k].links) :
              (Excluded(m) /\ FooterLinks[k].links[j].href = Some(ResolvedHref(m, FooterLocale)))
                => \E v \in FooterModules :
                     ResolvedHref(v, FooterLocale) = ResolvedHref(m, FooterLocale)

\* a header call and a footer call over an inventory with two excluded
\* pages that differ in order, type and showIn, next to a page that is shown
C12_Witness ==
  /\ headerData # None /\ HeaderLinks # <<>>
  /\ footerData # None /\ FooterLinks # <<>>
  /\ \E a, b \in Range(pageModules) :
       /\ Excluded(a) /\ HasTitle(a) /\ a.navigation.order = None
       /\ Excluded(b) /\ HasTitle(b) /\ b.navigation.type = Some("category")

\* ------------------------------------------------------------------------
\* C13: each page that the Page Filter leaves out for the exclude flag, for
\* a missing navigation.title or for a missing slug on a category or tag
\* page has exactly one logged warning that names its route.
\* ------------------------------------------------------------------------
\* the module is left out for one of the three SkippablePageIssues
SkippableIssue(m, channel) ==
  /\ extractRoutePath(m.file) # <<>>
  /\ \/ Excluded(m)
     \/ ~HasTitle(m)
     \/ /\ VisibleOn(m, channel)
        /\ TypeOf(m) \in {"category", "tag"}
        /\ m.navigation.slug \in {None, Some(<<>>)}

WarnedOnce(m, warnings) ==
  Cardinality({k \in 1..Len(warnings) :
                 warnings[k].route = extractRoutePath(m.file)}) = 1

C13_SkippedPagesWarned ==
  /\ headerData # None =>
       \A m \in Range(pageModules) :
         SkippableIssue(m, "header") => WarnedOnce(m, Val(headerData).warnings)
  /\ footerData # None =>
       \A m \in Range(pageModules) :
         SkippableIssue(m, "footer") => WarnedOnce(m, Val(footerData).warnings)

\* ------------------------------------------------------------------------
\* Vocabulary of the Page Filter properties
\* ------------------------------------------------------------------------
ScanVisibility == Val(scanned).visibility

ScanSkipDynamic == Val(scanned).skipDynamic

\* the module has a page in the result of the scan
KeptByScan(m) ==
  \E i \in 1..Len(Val(scanned).pages) :
    /\ Val(scanned).pages[i].path = extractRoutePath(m.file)
    /\ Val(scanned).pages[i].navigation = m.navigation

\* one of the segments of the module's path starts with "[..."
HasRestSegment(m) ==
  \E i \in 1..Len(m.file.segs) : m.file.segs[i] \in {"[...blog]", "[...page]"}

\* the rules of the Page Filter other than showIn and skipDynamicRoutes
PassesMetadataRules(m) ==
  /\ extractRoutePath(m.file) # <<>>
  /\ ~Excluded(m)
  /\ HasTitle(m)
  /\ ~(TypeOf(m) \in {"category", "tag"} /\ m.navigation.slug = Some(<<>>))

\* ------------------------------------------------------------------------
\* C14: a page that passes every other rule of the Page Filter is kept for
\* the header channel, for the footer channel and without a channel when its
\* showIn is absent or empty, and it is dropped exactly when a channel is
\* given and its showIn set (a string being a one-element set) is non-empty
\* and does not contain the channel.
\* ------------------------------------------------------------------------
C14_ShowInRule ==
  scanned # None =>
    \A m \in Range(pageModules) :
      (PassesMetadataRules(m) /\ ~(ScanSkipDynamic /\ HasRestSegment(m))) =>
        /\ ShowInSet(m) = {} => KeptByScan(m)
        /\ ~KeptByScan(m) <=>
             /\ ScanVisibility # ""
             /\ ShowInSet(m) # {}
             /\ ScanVisibility \notin ShowInSet(m)

\* a scan without a channel that kept a page with an empty showIn array and
\* a page with showIn "footer"
C14_Witness ==
  /\ scanned # None
  /\ ScanVisibility = ""
  /\ \E a, b \in Range(pageModules) :
       /\ a.navigation.showIn = ShowInArray(<<>>) /\ KeptByScan(a)
       /\ b.navigation.showIn = ShowInString("footer") /\ KeptByScan(b)

\* ------------------------------------------------------------------------
\* C15: a page that passes every other rule of the Page Filter is dropped
\* exactly when skipDynamicRoutes is set and one of its path segments starts
\* with "[..."; single-parameter segments such as [tag] do not drop it, and
\* without skipDynamicRoutes the rule drops nothing.
\* ------------------------------------------------------------------------
C15_SkipDynamicRule ==
  scanned # None =>
    \A m \in Range(pageModules) :
      (PassesMetadataRules(m) /\ (ScanVisibility = "" \/ VisibleOn(m, ScanVisibility))) =>
        (~KeptByScan(m) <=> (ScanSkipDynamic /\ HasRestSegment(m)))

\* a scan with skipDynamic that dropped blog/[...page] and kept blog/[tag]
C15_Witness ==
  /\ scanned # None
  /\ ScanSkipDynamic
  /\ \E a, b \in Range(pageModules) :
       /\ a.file.segs = <<"blog", "[...page]">> /\ ~KeptByScan(a)
       /\ PassesMetadataRules(a) /\ VisibleOn(a, ScanVisibility)
       /\ b.file.segs = <<"blog", "[tag]">> /\ KeptByScan(b)

CatalogsLoaded == \A c \in Catalogs : loaded[c] = "loaded"

C17_ReadyBeforeLocale ==
  /\ [](\A r \in Requests :
          requests[r].pc \in {"runWithLocale", "returned"} => CatalogsLoaded)
  /\ \A r \in Requests :
       (requests[r].pc = "await") ~>
         \/ requests[r].pc = "runWithLocale"
         \/ \E c \in Catalogs : loaded[c] = "rejected"

\* a request that came in before the loads completed is in runWithLocale
\* while a request that came in afterwards has returned
C17_Witness ==
  \E r, q \in Requests :
    /\ requests[r].pc = "runWithLocale" /\ requests[r].waited
    /\ requests[q].pc = "returned" /\ ~requests[q].waited

TreePages == Val(navTree).pages

TreeLinks == Val(navTree).links

TreeCollapsed == Val(navTree).collapsed

\* page b sits one segment below page a
ChildPath(a, b) == Len(b.path) = Len(a.path) + 1 /\ SubSeq(b.path, 1, Len(a.path)) = a.path

\* no other page of the input list has the page's path
OnlyPageAtPath(page) == \A q \in Range(TreePages) : q.path = page.path => q = page

\* ------------------------------------------------------------------------
\* C19: for a page at path a and a page at path a/b, given to
\* buildNavigationTree in either order and then to collapseSingleChildNodes,
\* the result has one node with page a's title and href, and page b's node
\* is a child of it; a node that has an href is never replaced by its child.
\* ------------------------------------------------------------------------
C19_PrefixLeafKept ==
  navTree # None =>
    /\ \A a, b \in Range(TreePages) :
         (ChildPath(a, b) /\ OnlyPageAtPath(a) /\ OnlyPageAtPath(b)) =>
           /\ Cardinality({n \in NodesOf(TreeCollapsed) : n.href = Some(a.href)}) = 1
           /\ \E n \in NodesOf(TreeCollapsed) :
                /\ n.title = a.title /\ n.href = Some(a.href)
                /\ \E j \in 1..ChildCount(n) :
                     /\ Val(n.links)[j].title = b.title
                     /\ Val(n.links)[j].href = Some(b.href)
    /\ \A n \in NodesOf(TreeLinks) :
         n.href # None =>
           \E c \in NodesOf(TreeCollapsed) :
             c.title = n.title /\ c.href = n.href /\ ChildCount(c) = ChildCount(n)

\* the tree of an inventory that has the page docs/intro before the page
\* docs, and a page with an href whose only child was collapsed
C19_Witness ==
  /\ navTree # None
  /\ \E i, j \in 1..Len(TreePages) :
       i < j /\ ChildPath(TreePages[j], TreePages[i])
  /\ \E n \in NodesOf(TreeCollapsed) : n.href # None /\ ChildCount(n) = 1

\* ------------------------------------------------------------------------
\* C20: for every input page with path s1/.../sn, buildNavigationTree's
\* output has a chain of n nested nodes, one per segment, a node being
\* identified by its segment within its parent only; the n-th node holds the
\* page's title and href, and an intermediate node not backed by a page
\* holds formatTitle(segment) and no href.
\* ------------------------------------------------------------------------
\* the input pages at the first i segments of the path
PagesAt(path, i) == {q \in Range(TreePages) : q.path = SubSeq(path, 1, i)}

\* the segments that follow the first i segments of the path in some page
SegmentsBelow(path, i) ==
  {q.path[i + 1] : q \in {x \in Range(TreePages) :
                            Len(x.path) > i /\ SubSeq(x.path, 1, i) = SubSeq(path, 1, i)}}

\* node is the node of segment i of the page's path
NodeOfSegment(node, page, i) ==
  /\ ChildCount(node) = Cardinality(SegmentsBelow(page.path, i))
  /\ IF i = Len(page.path)
       THEN node.title = page.title /\ node.href = Some(page.href)
     ELSE IF PagesAt(page.path, i) = {}
       THEN node.title = formatTitle(page.path[i]) /\ node.href = None
     ELSE \E q \in PagesAt(page.path, i) : node.title = q.title /\ node.href = Some(q.href)

RECURSIVE HasChain(_, _, _)
HasChain(links, page, i) ==
  \E k \in 1..Len(links) :
    /\ NodeOfSegment(links[k], page, i)
    /\ \/ i = Len(page.path)
       \/ links[k].links # None /\ HasChain(Val(links[k].links), page, i + 1)

\* the claim as it stands: every input page
C20_ChainPerPage ==
  navTree # None =>
    \A page \in Range(TreePages) : HasChain(TreeLinks, page, 1)

\* C20 as amended: every input page whose path no later page of the list has
C20_ChainPerLastPage ==
  navTree # None =>
    \A j \in 1..Len(TreePages) :
      (\A l \in (j + 1)..Len(TreePages) : TreePages[l].path # TreePages[j].path)
        => HasChain(TreeLinks, TreePages[j], 1)

\* the tree of an inventory with the segment core under two parents, below
\* which a page sits three and a page four segments deep
C20_Witness ==
  /\ navTree # None
  /\ \E a, b \in Range(TreePages) :
       /\ Len(a.path) = 3 /\ Len(b.path) = 4
       /\ a.path[1] # b.path[1] /\ a.path[2] = b.path[2]

\* ------------------------------------------------------------------------
\* C21: when two pages of buildNavigationTree's input list have the same
\* path, the tree has a single node for that path, which holds the title and
\* href of the later page and keeps the children attached to it.
\* ------------------------------------------------------------------------
\* the number of nodes of a links tree, a node counting once for each place
\* it stands at
RECURSIVE NodeCount(_)
NodeCount(links) ==
  IF links = <<>> THEN 0
  ELSE 1 + (IF Head(links).links = None THEN 0 ELSE NodeCount(Val(Head(links).links)))
         + NodeCount(Tail(links))

\* the paths that the input pages and their ancestors sit at
TreePaths ==
  UNION {{SubSeq(q.path, 1, i) : i \in 1..Len(q.path)} : q \in Range(TreePages)}

C21_LastWriterWins ==
  navTree # None =>
    /\ NodeCount(TreeLinks) = Cardinality(TreePaths)
    /\ \A i, j \in 1..Len(TreePages) :
         (/\ i < j
          /\ TreePages[i].path = TreePages[j].path
          /\ \A l \in (j + 1)..Len(TreePages) : TreePages[l].path # TreePages[j].path)
           => HasChain(TreeLinks, TreePages[j], 1)

\* the tree of an input list with two pages at docs and, between them, a
\* page below docs, the two pages having different titles
C21_Witness ==
  /\ navTree # None
  /\ \E i, j, k \in 1..Len(TreePages) :
       /\ i < k /\ k < j
       /\ TreePages[i].path = TreePages[j].path
       /\ TreePages[i].title # TreePages[j].title
       /\ ChildPath(TreePages[j], TreePages[k])

\* ------------------------------------------------------------------------
\* C22: collapseSingleChildNodes applied to its own output returns a
\* structurally equal tree, also for chains of three or more href-less
\* single-child nodes: one bottom-up pass leaves nothing to collapse.
\* ------------------------------------------------------------------------
C22_CollapseIdempotent ==
  navTree # None =>
    /\ TreeCollapsed = collapseSingleChildNodes(TreeLinks)
    /\ collapseSingleChildNodes(TreeCollapsed) = TreeCollapsed
    /\ \A n \in NodesOf(TreeCollapsed) : ~(noHref(n) /\ ChildCount(n) = 1)

\* the collapsed tree of a tree with a chain of three href-less single-child
\* nodes, next to a node that was not collapsed
C22_Witness ==
  /\ navTree # None
  /\ \E n \in NodesOf(TreeLinks) :
       /\ noHref(n) /\ ChildCount(n) = 1
       /\ noHref(Val(n.links)[1]) /\ ChildCount(Val(n.links)[1]) = 1
       /\ noHref(Val(Val(n.links)[1].links)[1])
       /\ ChildCount(Val(Val(n.links)[1].links)[1]) = 1
  /\ \E n \in NodesOf(TreeCollapsed) : ChildCount(n) >= 1

\* ------------------------------------------------------------------------
\* C23: in buildNavigationTree's output the top-level list and the children
\* list of every node, at every depth, are in nondecreasing order of title,
\* whatever the order and the navigation.order values of the input pages.
\* ------------------------------------------------------------------------
SortedByTitle(links) ==
  \A i, j \in 1..Len(links) :
    i < j => localeCompare(links[i].title, links[j].title) <= 0

C23_BuilderSorted ==
  navTree # None => \A L \in SiblingLists(TreeLinks) : SortedByTitle(L)

\* the tree of an input list that has two pages three segments deep under
\* one parent against the alphabet, one page having a navigation.order
C23_Witness ==
  /\ navTree # None
  /\ \E i, j \in 1..Len(TreePages) :
       /\ i < j
       /\ Len(TreePages[i].path) = 3 /\ Len(TreePages[j].path) = 3
       /\ SubSeq(TreePages[i].path, 1, 2) = SubSeq(TreePages[j].path, 1, 2)
       /\ localeCompare(TreePages[i].title, TreePages[j].title) > 0
  /\ \E q \in Range(TreePages) : q.navigation.order # None

\* ------------------------------------------------------------------------
\* C24: sortPages returns a permutation of its input in which the pages are
\* in ascending navigation.order, a page without an order after every page
\* with one, pages of equal order by title; two pages compare equal only
\* when their orders are equal and their titles identical.
\* ------------------------------------------------------------------------
\* the pages generateFooterData hands to sortPages
FooterPages == scanPages(FooterLocale, "footer", TRUE)

Occurrences(seq, x) == Cardinality({i \in 1..Len(seq) : seq[i] = x})

C24_SortPagesOrder ==
  footerData # None =>
    LET sorted == sortPages(FooterPages)
    IN  /\ Len(sorted) = Len(FooterPages)
        /\ \A p \in Range(FooterPages) \cup Range(sorted) :
             Occurrences(sorted, p) = Occurrences(FooterPages, p)
        /\ \A i, j \in 1..Len(sorted) :
             i < j =>
               LET a == sorted[i].navigation.order
                   b == sorted[j].navigation.order
               IN  /\ a = None => b = None
                   /\ (a # None /\ b # None) => Val(a) <= Val(b)
                   /\ a = b => TitleRank(sorted[i].title) <= TitleRank(sorted[j].title)
        /\ \A p, q \in Range(FooterPages) :
             comparePages(p, q) = 0 =>
               p.navigation.order = q.navigation.order /\ p.title = q.title
        /\ Val(footerData).data.links =
             navigationLinksToFooterLinks(buildNavigationTree(sorted))

\* a footer call over an inventory that yields a page without an order
\* first, then a page with order 2, then a page with order 1
C24_Witness ==
  /\ footerData # None
  /\ Len(FooterPages) = 3
  /\ FooterPages[1].navigation.order = None
  /\ FooterPages[2].navigation.order = Some(2)
  /\ FooterPages[3].navigation.order = Some(1)

\* ------------------------------------------------------------------------
\* C25: no node in the output of generateNavigation or generateFooterData
\* carries the _childMap used during construction; the output nodes expose
\* title, href and links only.
\* ------------------------------------------------------------------------
C25_NoChildMapExposed ==
  /\ headerData # None =>
       \A n \in NodesOf(HeaderLinks) : n._childMap = None
  /\ footerData # None =>
       \A k \in 1..Len(FooterLinks) :
         /\ DOMAIN FooterLinks[k] = {"title", "links"}
         /\ \A j \in 1..Len(FooterLinks[k].links) :
              DOMAIN FooterLinks[k].links[j] = {"title", "href"}

OnlyModuleAtPath(m) ==
  \A o \in HeaderModules :
    extractRoutePath(o.file) = extractRoutePath(m.file) => o = m

C27_PageHasNode ==
  headerData # None =>
    \A m \in HeaderModules :
      OnlyModuleAtPath(m) =>
        \E n \in NodesOf(HeaderLinks) :
          /\ n.title = Val(m.navigation.title)
          /\ n.href = Some(ResolvedHref(m, HeaderLocale))

\* ------------------------------------------------------------------------
\* C28: generateNavigation's output does not depend on the order in which
\* the inventory yields the pages: for an inventory with pairwise distinct
\* paths and each of its permutations, when no two sibling nodes of either
\* output share a title, the two outputs are structurally equal.
\* ------------------------------------------------------------------------
InventoryOrders(n) ==
  {f \in [1..n -> 1..n] : \A i, j \in 1..n : f[i] = f[j] => i = j}

Permute(seq, f) == [i \in 1..Len(seq) |-> seq[f[i]]]

\* a links tree up to structural equality: a Map compares by its keys, not
\* by their insertion order
RECURSIVE StructureOf(_)
StructureOf(links) ==
  [k \in 1..Len(links) |->
     [title     |-> links[k].title,
      href      |-> links[k].href,
      links     |-> IF links[k].links = None THEN None
                    ELSE Some(StructureOf(Val(links[k].links))),
      _childMap |-> IF links[k]._childMap = None THEN None
                    ELSE Some(Range(Val(links[k]._childMap)))]]

SiblingTitlesDistinct(links) ==
  \A L \in SiblingLists(links) :
    \A i, j \in 1..Len(L) : L[i].title = L[j].title => i = j

\* generateNavigation(locale).links over the inventory in another order
PermutedLinks(f) ==
  headerLinks(scanPagesOf(Permute(pageModules, f), HeaderLocale, "header", FALSE))

C29_OutputSorted ==
  headerData # None => \A L \in SiblingLists(HeaderLinks) : SortedByTitle(L)

\* ------------------------------------------------------------------------
\* C30: across any interleaving of concurrent fetchPages calls the
\* collection is loaded at most once, and every call, with or without a
\* lang, is served from the one cached list.
\* ------------------------------------------------------------------------
C30_LoadedOnce ==
  /\ loads <= 1
  /\ \A i, j \in 1..Len(fetches) :
       (fetches[i].pc = "returned" /\ fetches[j].pc = "returned")
         => fetches[i].array = fetches[j].array

====
